---- MODULE Spec2Model ----
(***************************************************************************)
(* set_gnome_shortcuts.py: a run reads a JSON configuration, reads the     *)
(* custom shortcuts installed in the settings store, matches the requested *)
(* custom shortcuts against them by name and writes them back through     *)
(* `gsettings set`, then writes the built-in shortcuts.                    *)
(*                                                                         *)
(* Representation.                                                         *)
(*   - A slot path ".../custom-keybindings/custom{N}/" is the number N.    *)
(*   - A string that reaches a shell command line is the sequence of its   *)
(*     blank-separated words (the empty string is << >>), so that what     *)
(*     /bin/bash -c does with an unquoted and with a quoted substitution   *)
(*     can be computed.                                                    *)
(*   - Python's None for `index` is << >> and an index i is << i >>.       *)
(*   - Every subprocess call (one gsettings get or set) is one step.       *)
(***************************************************************************)
EXTENDS Integers, Sequences, FiniteSets, TLC

\* Bounds of the model.
MaxLen == 2        \* length of the slot list before the first run
MaxReq == 2        \* entries of "custom_shortcuts" in the configuration
MaxRuns == 2       \* sequential runs of the script

VARIABLES
    store,               \* the settings store (dconf): slot list, slot attributes, built-in keys
    cfg,                 \* the configuration file given on the command line
    run,                 \* number of the run in progress
    pc,                  \* position of the run in main / __init__ / the loops
    exit,                \* exit status of the run, NoExit while it runs
    custom_shortcuts,    \* self.custom_shortcuts, in dict insertion order
    builtin_shortcuts,   \* self.builtin_shortcuts
    current_shortcuts,   \* self.current_shortcuts: name -> shortcut
    custom_shortcut_list,\* the slot list as read by _read_current_shortcuts
    i,                   \* loop counter of the loop the run is in
    new_shortcut_list,   \* local of _configure_shortcut
    log,                 \* the subprocess calls made by the run so far
    start,               \* the store when the run started
    prev,                \* the store when the previous run ended (<< >> in the first run)
    faults,              \* store calls that may still fail
    other                \* the state of a second run of the script, while this one runs

vars == << store, cfg, run, pc, exit, custom_shortcuts, builtin_shortcuts,
           current_shortcuts, custom_shortcut_list, i, new_shortcut_list,
           log, start, prev, faults, other >>

----------------------------------------------------------------------------
\* Values

NoneStr == "None"                 \* Python's None where a str is expected
NoIndex == << >>                  \* index: int = None
NoExit == "running"

EmptyStr == << >>                 \* ''

\* `if not shortcut.index` in place of `is None`: index 0 counts as unset
IsNoneOrZero(index) == index = NoIndex \/ index = << 0 >>

\* shortcut.index is None
IsNone(index) == index = NoIndex

\* if shortcut.builtin_replaced: -- None and '' are falsy
Truthy(s) == s \notin {NoneStr, ""}

\* The fields of the dataclasses.
BaseFields == {"name", "binding"}
CustomRequired == {"name", "binding", "command"}
CustomFields == CustomRequired \cup {"builtin_replaced", "index"}

----------------------------------------------------------------------------
\* Sequences

Range(s) == { s[k] : k \in DOMAIN s }

Injective(s) == \A a, b \in DOMAIN s : s[a] = s[b] => a = b

IsPrefix(s, t) == Len(s) <= Len(t) /\ SubSeq(t, 1, Len(s)) = s

SeqsUpTo(S, n) == UNION { [1..k -> S] : k \in 0..n }

----------------------------------------------------------------------------
\* The shell and gsettings

\* The arguments /bin/bash -c hands to gsettings for a substituted string:
\* the string itself inside double quotes, its words one by one outside.
ShellArgs(words, quoted) ==
    IF quoted THEN << words >> ELSE [k \in 1..Len(words) |-> << words[k] >>]

\* `gsettings set SCHEMA:PATH KEY VALUE` takes exactly one VALUE argument;
\* with none or several it prints its usage and changes nothing.
GsettingsSetOk(args) == Len(args) = 1

RECURSIVE LStrip(_, _)
LStrip(s, chars) ==
    IF s # << >> /\ Head(s) \in chars THEN LStrip(Tail(s), chars) ELSE s

RECURSIVE RStrip(_, _)
RStrip(s, chars) ==
    IF s # << >> /\ s[Len(s)] \in chars
    THEN RStrip(SubSeq(s, 1, Len(s) - 1), chars)
    ELSE s

\* `gsettings get` prints a string in single quotes, followed by a newline.
GVariantText(value) == << "'" >> \o value \o << "'", "\n" >>

\* .decode("utf-8").strip().strip("'")
StripOutput(out) ==
    LET stripped == RStrip(LStrip(out, {"\n", " "}), {"\n", " "})
    IN  RStrip(LStrip(stripped, {"'"}), {"'"})

\* `gsettings get SCHEMADIR custom-keybindings` prints "@as []" for the empty
\* list and the list of paths otherwise; lstrip("@as") and eval give the list.
ListOutput(list) ==
    [prefix |-> IF list = << >> THEN "@as " ELSE "", items |-> list]

EvalList(out) == out.items

----------------------------------------------------------------------------
\* Pure functions of ShortcutManager

\* a CustomShortcut whose binding and command have defaults too
CustomObjOkDefaults(obj) == "name" \in obj.fields /\ obj.fields \subseteq CustomFields

\* CustomShortcut(**obj): every required field given, no unknown field.
CustomObjOk(obj) ==
    /\ "name" \in obj.fields                       \* obj["name"]
    /\ CustomRequired \subseteq obj.fields
    /\ obj.fields \subseteq CustomFields

\* BuiltinShortcut(**obj)
BuiltinObjOk(obj) == obj.fields = BaseFields

CustomShortcut(obj) ==
    [name |-> obj.name, binding |-> obj.binding, command |-> obj.command,
     builtin_replaced |-> IF "builtin_replaced" \in obj.fields
                          THEN obj.builtin_replaced ELSE NoneStr,
     index |-> IF "index" \in obj.fields THEN << obj.index >> ELSE NoIndex]

BuiltinShortcut(obj) == [name |-> obj.name, binding |-> obj.binding]

\* position of `name` among the keys of a dict kept in insertion order, 0 if absent
KeyPos(dict, name) ==
    LET at == { k \in DOMAIN dict : dict[k].name = name }
    IN  IF at = {} THEN 0 ELSE CHOOSE k \in at : TRUE

\* a dict that keeps the value it has for a known key
DictPutFirst(dict, shortcut) ==
    IF KeyPos(dict, shortcut.name) = 0 THEN Append(dict, shortcut) ELSE dict

\* dict[shortcut.name] = shortcut: a new key goes last, a known key keeps its place
DictPut(dict, shortcut) ==
    IF KeyPos(dict, shortcut.name) = 0
    THEN Append(dict, shortcut)
    ELSE [dict EXCEPT ![KeyPos(dict, shortcut.name)] = shortcut]

RECURSIVE DictOf(_, _)
DictOf(data, dict) ==
    IF data = << >> THEN dict
    ELSE DictOf(Tail(data), DictPut(dict, CustomShortcut(Head(data))))

\* {obj["name"]: CustomShortcut(**obj) for obj in data}
ParseCustomDict(data) == DictOf(data, << >>)

\* [BuiltinShortcut(**obj) for obj in data]
ParseBuiltinList(data) == [k \in DOMAIN data |-> BuiltinShortcut(data[k])]

Keys(dict) == { dict[k].name : k \in DOMAIN dict }

\* a reconciliation that returns the requested shortcuts as they were parsed
ComputeShortcutsToApplyNoCopy(current, requested) == requested

\* _compute_shortcuts_to_apply: `current` is a function name -> shortcut,
\* `requested` a dict in insertion order; the list returned holds the objects
\* of `requested`, so the result is also the new value of `requested`.
ComputeShortcutsToApply(current, requested) ==
    LET shortcuts_in_common == DOMAIN current \cap Keys(requested)
    IN  [k \in DOMAIN requested |->
            IF requested[k].name \in shortcuts_in_common
            THEN [requested[k] EXCEPT !.index = current[requested[k].name].index]
            ELSE requested[k]]

\* the slots numbered from 1: base.format(len(current_list) + 1)
GetNewShortcutPathFromOne(current_list) == Len(current_list) + 1

\* _get_new_shortcut_path: base.format(len(current_list))
GetNewShortcutPath(current_list) == Len(current_list)

\* [new_shortcut_path] + current_shortcut_list: the new slot put first
GetNewShortcutListPrepend(current_shortcut_list) ==
    << GetNewShortcutPath(current_shortcut_list) >> \o current_shortcut_list

\* _get_new_shortcut_list, after eval: current_shortcut_list + [new_shortcut_path]
GetNewShortcutList(current_shortcut_list) ==
    current_shortcut_list \o << GetNewShortcutPath(current_shortcut_list) >>

\* shortcut.index = len(new_shortcut_list) - 1
NewIndex(list) == << Len(list) - 1 >>

\* f".../custom-keybindings/custom{shortcut.index}/"
ShortcutName(shortcut) == shortcut.index[1]

\* the binding added to the key's bindings instead of replacing them
BuiltinValueAdded(shortcut) ==
    IF shortcut.name \in DOMAIN store.builtin
    THEN Append(store.builtin[shortcut.name], shortcut.binding)
    ELSE << shortcut.binding >>

\* '["{shortcut.binding}"]'
BuiltinValue(shortcut) == << shortcut.binding >>

\* '[]'
DisabledValue == << >>

----------------------------------------------------------------------------
\* The inputs: the store before the first run and the configuration file

SlotNumbers == 0..2               \* the N of the custom{N} of the first slot list
StoreNames == { << "A" >>, << "B" >> }
BuiltinKeys == { "k1" }

\* Every custom{N} a run can read or write.
SlotIds == 0..(MaxLen + MaxRuns * MaxReq)

DefaultAttrs == [name |-> EmptyStr, binding |-> EmptyStr, command |-> EmptyStr]

SlotLists == { l \in SeqsUpTo(SlotNumbers, MaxLen) : Injective(l) }

\* A store as the desktop leaves it: a list of distinct slots, in any order and
\* with any numbers (shortcuts are added and removed in the settings panel),
\* each listed slot holding a named shortcut.
Stores ==
    { [list |-> l,
       attrs |-> [s \in SlotIds |->
                    IF \E k \in DOMAIN l : l[k] = s
                    THEN [name |-> names[CHOOSE k \in DOMAIN l : l[k] = s],
                          binding |-> << "b0" >>, command |-> << "c0" >>]
                    ELSE DefaultAttrs],
       builtin |-> [key \in BuiltinKeys |-> << << "b0" >> >>]]
      : l \in SlotLists, names \in [1..MaxLen -> StoreNames] }

\* The objects of "custom_shortcuts", in the documented format (name, binding,
\* command, optional builtin_replaced): two names of one word and one of two
\* words, with and without builtin_replaced, and one object without "command".
CustomObjs ==
    { [fields |-> {"name", "binding", "command", "builtin_replaced"},
       name |-> << "A" >>, binding |-> << "b1" >>, command |-> << "run", "it" >>,
       builtin_replaced |-> "k1"],
      [fields |-> {"name", "binding", "command"},
       name |-> << "A" >>, binding |-> << "b2" >>, command |-> << "run", "it" >>,
       builtin_replaced |-> NoneStr],
      [fields |-> {"name", "binding", "command"},
       name |-> << "B" >>, binding |-> << "b1" >>, command |-> << "run", "it" >>,
       builtin_replaced |-> NoneStr],
      [fields |-> {"name", "binding", "command", "builtin_replaced"},
       name |-> << "B" >>, binding |-> << "b2" >>, command |-> << "open" >>,
       builtin_replaced |-> "k1"],
      [fields |-> {"name", "binding", "command"},
       name |-> << "A", "B" >>, binding |-> << "b1" >>, command |-> << "run", "it" >>,
       builtin_replaced |-> NoneStr],
      [fields |-> {"name", "binding"},
       name |-> << "B" >>, binding |-> << "b1" >>, command |-> EmptyStr,
       builtin_replaced |-> NoneStr] }

BuiltinLists ==
    { << >>,
      << [fields |-> {"name", "binding"}, name |-> "k1", binding |-> << "b2" >>] >>,
      << [fields |-> {"name"}, name |-> "k1", binding |-> EmptyStr] >> }

Configs ==
    { [file |-> "ok", custom |-> c, builtin |-> b]
        : c \in SeqsUpTo(CustomObjs, MaxReq), b \in BuiltinLists }
    \cup { [file |-> f, custom |-> << >>, builtin |-> << >>] : f \in {"missing", "not_json"} }

\* no second run of the script
NoProcess == [pc |-> "done"]

InitWith(stores, configs, f) ==
    /\ store \in stores
    /\ cfg \in configs
    /\ run = 1
    /\ pc = "main"
    /\ exit = NoExit
    /\ custom_shortcuts = << >>
    /\ builtin_shortcuts = << >>
    /\ current_shortcuts = << >>
    /\ custom_shortcut_list = << >>
    /\ i = 0
    /\ new_shortcut_list = << >>
    /\ log = << >>
    /\ start = store
    /\ prev = [store |-> store, exit |-> NoExit]
    /\ faults = f
    /\ other = NoProcess

\* The store answers every call.
Init == InitWith(Stores, Configs, 0)

\* One call to the store may fail.
InitFault == InitWith(Stores, Configs, 1)

----------------------------------------------------------------------------
\* The subprocess calls

\* A call to the store fails only while `faults` allows it.
Outcomes == IF faults > 0 THEN BOOLEAN ELSE {TRUE}

Spend(ok) == faults' = IF ok THEN faults ELSE faults - 1

Call(op, kind, key, slot, val, ok) ==
    [op |-> op, kind |-> kind, key |-> key, slot |-> slot, val |-> val,
     ok |-> ok, at |-> IF pc \in {"main", "read_current", "build_struct", "builtin"}
                       THEN 0 ELSE i]

\* An uncaught exception or sys.exit(1)
Die == pc' = "done" /\ exit' = 1

\* the commands list with the binding put before the name
CommandsBindingFirst == << "binding", "name", "command" >>

\* commands = [... name ..., ... binding ..., ... command ...]
Commands == << "name", "binding", "command" >>

\* the position of the run at each command of the list
StepOf == [name |-> "set_name", binding |-> "set_binding", command |-> "set_command"]

\* _configure_shortcut: `if shortcut.index is None`, else straight to the commands
ConfigureStep(shortcut) ==
    IF IsNone(shortcut.index) THEN "alloc_read" ELSE StepOf[Commands[1]]

\* the loop body without its `if shortcut.builtin_replaced`
FirstStepNoDisable(shortcut) == ConfigureStep(shortcut)

FirstStep(shortcut) ==
    IF Truthy(shortcut.builtin_replaced) THEN "disable" ELSE ConfigureStep(shortcut)

\* where main goes once the custom shortcuts before the k-th are applied
NextCustom(shortcuts, k) ==
    IF k <= Len(shortcuts)
    THEN [pc |-> FirstStep(shortcuts[k]), i |-> k]
    ELSE [pc |-> IF builtin_shortcuts = << >> THEN "exit" ELSE "builtin", i |-> 1]

\* for cmd in commands: where the run goes after the command that writes `attr`
AfterCommand(attr) ==
    LET p == CHOOSE k \in DOMAIN Commands : Commands[k] = attr
    IN  IF p < Len(Commands)
        THEN [pc |-> StepOf[Commands[p + 1]], i |-> i]
        ELSE NextCustom(custom_shortcuts, i + 1)

----------------------------------------------------------------------------
\* The steps of a run

\* __init__: _read_config_file
ReadConfigFile ==
    /\ pc = "main"
    /\ IF cfg.file = "ok" THEN pc' = "parse_custom" /\ exit' = exit ELSE Die
    /\ UNCHANGED << store, cfg, run, custom_shortcuts, builtin_shortcuts,
                    current_shortcuts, custom_shortcut_list, i,
                    new_shortcut_list, log, start, prev, faults, other >>

\* __init__: _parse_custom
ParseCustom ==
    /\ pc = "parse_custom"
    /\ IF \A k \in DOMAIN cfg.custom : CustomObjOk(cfg.custom[k])
       THEN /\ custom_shortcuts' = ParseCustomDict(cfg.custom)
            /\ pc' = "parse_builtin"
            /\ exit' = exit
       ELSE /\ Die
            /\ custom_shortcuts' = custom_shortcuts
    /\ UNCHANGED << store, cfg, run, builtin_shortcuts, current_shortcuts,
                    custom_shortcut_list, i, new_shortcut_list, log, start,
                    prev, faults, other >>

\* __init__: _parse_builtin
ParseBuiltin ==
    /\ pc = "parse_builtin"
    /\ IF \A k \in DOMAIN cfg.builtin : BuiltinObjOk(cfg.builtin[k])
       THEN /\ builtin_shortcuts' = ParseBuiltinList(cfg.builtin)
            /\ pc' = "read_current"
            /\ exit' = exit
       ELSE /\ Die
            /\ builtin_shortcuts' = builtin_shortcuts
    /\ UNCHANGED << store, cfg, run, custom_shortcuts, current_shortcuts,
                    custom_shortcut_list, i, new_shortcut_list, log, start,
                    prev, faults, other >>

\* _read_current_shortcuts: the read of the slot list
ReadCurrentList ==
    /\ pc = "read_current"
    /\ \E ok \in Outcomes :
        /\ Spend(ok)
        /\ log' = Append(log, Call("get", "list", "", -1, << >>, ok))
        /\ IF ok
           THEN /\ custom_shortcut_list' = EvalList(ListOutput(store.list))
                /\ i' = 1
                /\ pc' = IF store.list = << >> THEN "compute" ELSE "build_struct"
                /\ exit' = exit
           ELSE /\ Die
                /\ UNCHANGED << custom_shortcut_list, i >>
    /\ UNCHANGED << store, cfg, run, custom_shortcuts, builtin_shortcuts,
                    current_shortcuts, new_shortcut_list, start, prev,
                    other >>

\* _read_current_shortcuts: one turn of the loop, _build_shortcut_struct
BuildShortcutStruct ==
    /\ pc = "build_struct"
    /\ \E ok \in Outcomes :
        LET shortcut_name == custom_shortcut_list[i]
            attrs == store.attrs[shortcut_name]
            shortcut == [name |-> StripOutput(GVariantText(attrs.name)),
                         binding |-> StripOutput(GVariantText(attrs.binding)),
                         command |-> StripOutput(GVariantText(attrs.command)),
                         builtin_replaced |-> NoneStr,
                         index |-> << i - 1 >>]
        IN  /\ Spend(ok)
            /\ log' = log \o [k \in 1..3 |->
                                Call("get", "attr", << "name", "binding", "command" >>[k],
                                     shortcut_name, << >>, ok)]
            /\ IF ok
               THEN /\ current_shortcuts' = (shortcut.name :> shortcut) @@ current_shortcuts
                    /\ i' = i + 1
                    /\ pc' = IF i = Len(custom_shortcut_list) THEN "compute" ELSE pc
                    /\ exit' = exit
               ELSE /\ Die
                    /\ UNCHANGED << current_shortcuts, i >>
    /\ UNCHANGED << store, cfg, run, custom_shortcuts, builtin_shortcuts,
                    custom_shortcut_list, new_shortcut_list, start, prev,
                    other >>

\* configure_custom_shortcuts: _compute_shortcuts_to_apply
ComputeToApply ==
    /\ pc = "compute"
    /\ LET shortcuts_to_apply ==
               ComputeShortcutsToApply(current_shortcuts, custom_shortcuts)
       IN  /\ custom_shortcuts' = shortcuts_to_apply
           /\ pc' = NextCustom(shortcuts_to_apply, 1).pc
           /\ i' = NextCustom(shortcuts_to_apply, 1).i
    /\ UNCHANGED << store, cfg, run, exit, builtin_shortcuts, current_shortcuts,
                    custom_shortcut_list, new_shortcut_list, log, start, prev,
                    faults, other >>

\* _disable_builtin_shortcut
DisableBuiltinShortcut ==
    /\ pc = "disable"
    /\ \E ok \in Outcomes :
        LET builtin == custom_shortcuts[i].builtin_replaced
        IN  /\ Spend(ok)
            /\ log' = Append(log, Call("set", "builtin", builtin, -1, DisabledValue, ok))
            /\ store' = IF ok /\ builtin \in BuiltinKeys
                        THEN [store EXCEPT !.builtin[builtin] = DisabledValue]
                        ELSE store
    /\ pc' = ConfigureStep(custom_shortcuts[i])
    /\ UNCHANGED << cfg, run, exit, custom_shortcuts, builtin_shortcuts,
                    current_shortcuts, custom_shortcut_list, i,
                    new_shortcut_list, start, prev, other >>

\* _configure_shortcut: _get_new_shortcut_list and the new index
AllocRead ==
    /\ pc = "alloc_read"
    /\ \E ok \in Outcomes :
        /\ Spend(ok)
        /\ log' = Append(log, Call("get", "list", "", -1, << >>, ok))
        /\ IF ok
           THEN /\ new_shortcut_list' = GetNewShortcutList(EvalList(ListOutput(store.list)))
                /\ custom_shortcuts' =
                       [custom_shortcuts EXCEPT ![i].index = NewIndex(new_shortcut_list')]
                /\ pc' = "alloc_write"
                /\ exit' = exit
           ELSE /\ Die
                /\ UNCHANGED << new_shortcut_list, custom_shortcuts >>
    /\ UNCHANGED << store, cfg, run, builtin_shortcuts, current_shortcuts,
                    custom_shortcut_list, i, start, prev, other >>

\* _configure_shortcut: the write of the new slot list
AllocWrite ==
    /\ pc = "alloc_write"
    /\ \E ok \in Outcomes :
        /\ Spend(ok)
        /\ log' = Append(log, Call("set", "list", "", -1, new_shortcut_list, ok))
        /\ store' = IF ok THEN [store EXCEPT !.list = new_shortcut_list] ELSE store
    /\ pc' = StepOf[Commands[1]]
    /\ UNCHANGED << cfg, run, exit, custom_shortcuts, builtin_shortcuts,
                    current_shortcuts, custom_shortcut_list, i,
                    new_shortcut_list, start, prev, other >>

\* One of the three commands of _configure_shortcut: `attr` is substituted
\* inside double quotes (command) or bare (name, binding).
WriteAttr(attr, quoted, ok) ==
    LET shortcut == custom_shortcuts[i]
        slot == ShortcutName(shortcut)
        args == ShellArgs(shortcut[attr], quoted)
        done == ok /\ GsettingsSetOk(args)
    IN  /\ Spend(ok)
        /\ log' = Append(log, Call("set", "attr", attr, slot, shortcut[attr], done))
        /\ store' = IF done THEN [store EXCEPT !.attrs[slot][attr] = args[1]] ELSE store

SetName ==
    /\ pc = "set_name"
    /\ \E ok \in Outcomes : WriteAttr("name", FALSE, ok)
    /\ pc' = AfterCommand("name").pc
    /\ i' = AfterCommand("name").i
    /\ UNCHANGED << cfg, run, exit, custom_shortcuts, builtin_shortcuts,
                    current_shortcuts, custom_shortcut_list,
                    new_shortcut_list, start, prev, other >>

SetBinding ==
    /\ pc = "set_binding"
    /\ \E ok \in Outcomes : WriteAttr("binding", FALSE, ok)
    /\ pc' = AfterCommand("binding").pc
    /\ i' = AfterCommand("binding").i
    /\ UNCHANGED << cfg, run, exit, custom_shortcuts, builtin_shortcuts,
                    current_shortcuts, custom_shortcut_list,
                    new_shortcut_list, start, prev, other >>

SetCommand ==
    /\ pc = "set_command"
    /\ \E ok \in Outcomes : WriteAttr("command", TRUE, ok)
    /\ pc' = AfterCommand("command").pc
    /\ i' = AfterCommand("command").i
    /\ UNCHANGED << cfg, run, exit, custom_shortcuts, builtin_shortcuts,
                    current_shortcuts, custom_shortcut_list,
                    new_shortcut_list, start, prev, other >>

\* configure_builtin_shortcuts: one turn of the loop
ConfigureBuiltin ==
    /\ pc = "builtin"
    /\ \E ok \in Outcomes :
        LET shortcut == builtin_shortcuts[i]
        IN  /\ Spend(ok)
            /\ log' = Append(log, Call("set", "builtin", shortcut.name, -1,
                                       BuiltinValue(shortcut), ok))
            /\ store' = IF ok /\ shortcut.name \in BuiltinKeys
                        THEN [store EXCEPT !.builtin[shortcut.name] = BuiltinValue(shortcut)]
                        ELSE store
    /\ i' = i + 1
    /\ pc' = IF i = Len(builtin_shortcuts) THEN "exit" ELSE pc
    /\ UNCHANGED << cfg, run, exit, custom_shortcuts, builtin_shortcuts,
                    current_shortcuts, custom_shortcut_list,
                    new_shortcut_list, start, prev, other >>

\* main returns
Exit ==
    /\ pc = "exit"
    /\ pc' = "done"
    /\ exit' = 0
    /\ UNCHANGED << store, cfg, run, custom_shortcuts, builtin_shortcuts,
                    current_shortcuts, custom_shortcut_list, i,
                    new_shortcut_list, log, start, prev, faults, other >>

\* The script is run again with the same configuration file.
Rerun ==
    /\ pc = "done"
    /\ run < MaxRuns
    /\ run' = run + 1
    /\ pc' = "main"
    /\ exit' = NoExit
    /\ custom_shortcuts' = << >>
    /\ builtin_shortcuts' = << >>
    /\ current_shortcuts' = << >>
    /\ custom_shortcut_list' = << >>
    /\ i' = 0
    /\ new_shortcut_list' = << >>
    /\ log' = << >>
    /\ start' = store
    /\ prev' = [store |-> store, exit |-> exit]
    /\ UNCHANGED << store, cfg, faults, other >>

Next ==
    \/ ReadConfigFile
    \/ ParseCustom
    \/ ParseBuiltin
    \/ ReadCurrentList
    \/ BuildShortcutStruct
    \/ ComputeToApply
    \/ DisableBuiltinShortcut
    \/ AllocRead
    \/ AllocWrite
    \/ SetName
    \/ SetBinding
    \/ SetCommand
    \/ ConfigureBuiltin
    \/ Exit
    \/ Rerun

Spec == Init /\ [][Next]_vars

SpecFault == InitFault /\ [][Next]_vars

\* Runs one after the other, each with a configuration file of its own, over
\* a store whose slot list is custom0, custom1, ... in order.
Canon(list) == \A k \in DOMAIN list : list[k] = k - 1

\* The configurations of these runs: names of one word, which a later run
\* finds installed, one with a built-in to disable, a name of two words, and
\* one built-in shortcut.
SeqConfigs ==
    { c \in Configs :
        /\ c.file = "ok"
        /\ \A k \in DOMAIN c.custom :
              /\ c.custom[k].name \in { << "A" >>, << "B" >>, << "A", "B" >> }
              /\ c.custom[k].binding = << "b1" >>
        /\ c.builtin # << >>
        /\ \A k \in DOMAIN c.builtin : BuiltinObjOk(c.builtin[k]) }

InitSeq == InitWith({ s \in Stores : Canon(s.list) }, SeqConfigs, 0)

\* The script is run again after the configuration file was edited.
RerunWith ==
    /\ pc = "done"
    /\ run < MaxRuns
    /\ run' = run + 1
    /\ cfg' \in SeqConfigs
    /\ pc' = "main"
    /\ exit' = NoExit
    /\ custom_shortcuts' = << >>
    /\ builtin_shortcuts' = << >>
    /\ current_shortcuts' = << >>
    /\ custom_shortcut_list' = << >>
    /\ i' = 0
    /\ new_shortcut_list' = << >>
    /\ log' = << >>
    /\ start' = store
    /\ prev' = [store |-> store, exit |-> exit]
    /\ UNCHANGED << store, faults, other >>

NextSeq ==
    \/ ReadConfigFile
    \/ ParseCustom
    \/ ParseBuiltin
    \/ ReadCurrentList
    \/ BuildShortcutStruct
    \/ ComputeToApply
    \/ DisableBuiltinShortcut
    \/ AllocRead
    \/ AllocWrite
    \/ SetName
    \/ SetBinding
    \/ SetCommand
    \/ ConfigureBuiltin
    \/ Exit
    \/ RerunWith

SpecSeq == InitSeq /\ [][NextSeq]_vars

----------------------------------------------------------------------------
\* Two runs of the script at the same time over one store: each is a process
\* of its own, with its own configuration file and its own Python objects;
\* the operating system lets one of them make its next steps, then the other.

\* what a run holds besides the store
Locals ==
    [cfg |-> cfg, run |-> run, pc |-> pc, exit |-> exit,
     custom_shortcuts |-> custom_shortcuts,
     builtin_shortcuts |-> builtin_shortcuts,
     current_shortcuts |-> current_shortcuts,
     custom_shortcut_list |-> custom_shortcut_list, i |-> i,
     new_shortcut_list |-> new_shortcut_list, log |-> log, start |-> start,
     prev |-> prev]

\* Each run requests one custom shortcut, whose name no installed shortcut
\* has; the two names differ.
ConcObjs ==
    { [fields |-> {"name", "binding", "command", "builtin_replaced"},
       name |-> << "C" >>, binding |-> << "b1" >>, command |-> << "run", "it" >>,
       builtin_replaced |-> "k1"],
      [fields |-> {"name", "binding", "command"},
       name |-> << "D" >>, binding |-> << "b2" >>, command |-> << "open" >>,
       builtin_replaced |-> NoneStr] }

ConcConfigs ==
    { [file |-> "ok", custom |-> << o >>, builtin |-> b]
        : o \in ConcObjs,
          b \in { l \in BuiltinLists : \A k \in DOMAIN l : BuiltinObjOk(l[k]) } }

InitConc ==
    /\ store \in { s \in Stores : Canon(s.list) }
    /\ cfg \in ConcConfigs
    /\ run = 1
    /\ pc = "main"
    /\ exit = NoExit
    /\ custom_shortcuts = << >>
    /\ builtin_shortcuts = << >>
    /\ current_shortcuts = << >>
    /\ custom_shortcut_list = << >>
    /\ i = 0
    /\ new_shortcut_list = << >>
    /\ log = << >>
    /\ start = store
    /\ prev = [store |-> store, exit |-> NoExit]
    /\ faults = 0
    /\ \E c \in ConcConfigs :
          /\ c.custom[1].name # cfg.custom[1].name
          /\ other = [Locals EXCEPT !.cfg = c]

\* The running process is suspended and the other one resumes.
Switch ==
    /\ other.pc # "done"
    /\ other' = Locals
    /\ cfg' = other.cfg
    /\ run' = other.run
    /\ pc' = other.pc
    /\ exit' = other.exit
    /\ custom_shortcuts' = other.custom_shortcuts
    /\ builtin_shortcuts' = other.builtin_shortcuts
    /\ current_shortcuts' = other.current_shortcuts
    /\ custom_shortcut_list' = other.custom_shortcut_list
    /\ i' = other.i
    /\ new_shortcut_list' = other.new_shortcut_list
    /\ log' = other.log
    /\ start' = other.start
    /\ prev' = other.prev
    /\ UNCHANGED << store, faults >>

NextConc ==
    \/ ReadConfigFile
    \/ ParseCustom
    \/ ParseBuiltin
    \/ ReadCurrentList
    \/ BuildShortcutStruct
    \/ ComputeToApply
    \/ DisableBuiltinShortcut
    \/ AllocRead
    \/ AllocWrite
    \/ SetName
    \/ SetBinding
    \/ SetCommand
    \/ ConfigureBuiltin
    \/ Exit
    \/ Switch

SpecConc == InitConc /\ [][NextConc]_vars

----------------------------------------------------------------------------
\* What the claims speak of

Calls == Range(log)

\* the run is past _compute_shortcuts_to_apply and did not die before it
Reconciled == pc \in {"disable", "alloc_read", "alloc_write", "set_name",
                      "set_binding", "set_command", "builtin", "exit"}
              \/ (pc = "done" /\ exit = 0)

Finished == pc = "done" /\ exit = 0

\* positions of the requested shortcuts whose name is / is not installed
Matched == { k \in DOMAIN custom_shortcuts :
                custom_shortcuts[k].name \in DOMAIN current_shortcuts }

Unmatched == DOMAIN custom_shortcuts \ Matched

\* the writes made for the k-th requested shortcut
WritesFor(k) == { e \in Calls : e.op = "set" /\ e.at = k }

----------------------------------------------------------------------------
\* C1: idempotence of a full run: for every requested set and every initial
\* store, a second run with the same configuration leaves the slot list and
\* every slot's name, binding and command as the first run left them (so the
\* second run appends no identifier to the slot list).
C1_Idempotent ==
    (run = 2 /\ Finished /\ prev.exit = 0) =>
        /\ store.list = prev.store.list
        /\ store.attrs = prev.store.attrs

\* C2: slot stability: a requested shortcut whose name is installed is applied
\* with the slot (index) of the installed shortcut of that name, never with a
\* fresh one, and applying it writes nothing to the top-level slot list.
C2_SlotStability ==
    Reconciled =>
        \A k \in Matched :
            LET name == custom_shortcuts[k].name
            IN  /\ custom_shortcuts[k].index = current_shortcuts[name].index
                /\ \A e \in WritesFor(k) :
                     /\ e.kind # "list"
                     /\ e.kind = "attr" => << e.slot >> = current_shortcuts[name].index

\* C2's case: a run that ended after writing the attributes of a matched shortcut.
C2_Witness ==
    /\ Finished
    /\ \E k \in Matched : \E e \in WritesFor(k) : e.kind = "attr" /\ e.ok

\* C3: non-destructive: an installed custom shortcut whose name is not
\* requested keeps, after the run, its entry in the slot list and the name,
\* binding and command of its slot.
C3_NonDestructive ==
    Finished =>
        \A k \in DOMAIN start.list :
            start.attrs[start.list[k]].name \notin Keys(custom_shortcuts) =>
                /\ k \in DOMAIN store.list
                /\ store.list[k] = start.list[k]
                /\ store.attrs[start.list[k]] = start.attrs[start.list[k]]

\* C4: fresh allocation uniqueness: N unmatched requested shortcuts applied
\* against a slot list of length M leave a slot list of length M+N whose
\* identifiers are pairwise distinct.
C4_FreshAllocationUnique ==
    (Finished /\ Injective(start.list)) =>
        /\ Len(store.list) = Len(start.list) + Cardinality(Unmatched)
        /\ Injective(store.list)

----------------------------------------------------------------------------
\* the configuration is one the loader must reject
ConfigError ==
    \/ cfg.file # "ok"
    \/ \E k \in DOMAIN cfg.custom : ~ ({"name", "binding", "command"} \subseteq cfg.custom[k].fields)
    \/ \E k \in DOMAIN cfg.builtin : ~ ({"name", "binding"} \subseteq cfg.builtin[k].fields)

\* C6: a failed store write is fatal for the run: after a write that failed
\* the run issues no further write.
C6_WriteFailureFatal ==
    \A a, b \in DOMAIN log :
        (a < b /\ log[a].op = "set" /\ ~ log[a].ok) => log[b].op # "set"

\* C7: exit status: a run that ends with status 0 read a good configuration
\* and had every store read and write succeed; a configuration that cannot
\* be read or a failed store call gives a non-zero status.
C7_ExitStatus ==
    (pc = "done" /\ exit = 0) => (~ ConfigError /\ \A e \in Calls : e.ok)

\* C8: a configuration error (file missing, not JSON, a shortcut without a
\* required field) stops the run before any store write: no write is issued,
\* the store stays as the run found it and the run ends with status 1.
C8_ConfigErrorBeforeWrites ==
    ConfigError =>
        /\ \A e \in Calls : e.op # "set"
        /\ store = start
        /\ pc \notin {"disable", "alloc_read", "alloc_write", "set_name",
                      "set_binding", "set_command", "builtin", "exit"}
        /\ pc = "done" => exit = 1

\* C8's case: a run that ended on a malformed built-in shortcut although the
\* configuration also held custom shortcuts that parsed.
C8_Witness ==
    /\ pc = "done"
    /\ exit = 1
    /\ cfg.file = "ok"
    /\ custom_shortcuts # << >>
    /\ \E k \in DOMAIN cfg.builtin : "binding" \notin cfg.builtin[k].fields

\* C9: disable before bind: every write of the name, binding or command of a
\* custom shortcut whose builtin_replaced is set comes after the write of the
\* empty binding list to that built-in key, made for the same shortcut.
C9_DisableBeforeBind ==
    \A b \in DOMAIN log :
        (/\ log[b].op = "set"
         /\ log[b].kind = "attr"
         /\ Truthy(custom_shortcuts[log[b].at].builtin_replaced))
        => \E a \in 1..(b - 1) :
              /\ log[a].op = "set"
              /\ log[a].kind = "builtin"
              /\ log[a].at = log[b].at
              /\ log[a].key = custom_shortcuts[log[b].at].builtin_replaced
              /\ log[a].val = << >>

\* C9's case: a finished run that wrote the attributes of a shortcut with
\* builtin_replaced set.
C9_Witness ==
    /\ Finished
    /\ \E e \in Calls :
          /\ e.op = "set"
          /\ e.kind = "attr"
          /\ e.key = "command"
          /\ Truthy(custom_shortcuts[e.at].builtin_replaced)

\* C10: applying a built-in shortcut makes one store call, a write, which
\* sets the shortcut's key to the one-element list of its binding whatever
\* the key held, and changes nothing else: applied to a key that already
\* holds that list it leaves the store as it is.
C10_BuiltinApply ==
    [][pc = "builtin" =>
         LET shortcut == builtin_shortcuts[i]
             call == log'[Len(log')]
         IN  /\ Len(log') = Len(log) + 1
             /\ call.op = "set"
             /\ call.kind = "builtin"
             /\ call.key = shortcut.name
             /\ call.val = << shortcut.binding >>
             /\ store' = [store EXCEPT !.builtin[shortcut.name] = << shortcut.binding >>]
             /\ store.builtin[shortcut.name] = << shortcut.binding >> => store' = store
      ]_vars

\* C10's case: a second run applied a built-in shortcut to a key that held
\* its binding already, the first run having written it over another value.
C10_Witness ==
    /\ run = 2
    /\ Finished
    /\ \E e \in Calls : e.op = "set" /\ e.kind = "builtin" /\ e.at = 0 /\ e.ok
    /\ \E k \in DOMAIN builtin_shortcuts :
          /\ start.builtin[builtin_shortcuts[k].name] = << builtin_shortcuts[k].binding >>
          /\ store.builtin[builtin_shortcuts[k].name] = << builtin_shortcuts[k].binding >>
    /\ custom_shortcuts = << >>

----------------------------------------------------------------------------
\* the call is a write of a slot attribute
IsAttrWrite(e) == e.op = "set" /\ e.kind = "attr"

\* C11: allocate before write: when a custom shortcut without a slot is
\* applied, the write that appends its new identifier to the slot list comes
\* before every write of an attribute to that slot; and the attributes of a
\* shortcut are written in the order name, binding, command.
C11_AllocateBeforeWrite ==
    \A b \in DOMAIN log :
        IsAttrWrite(log[b]) =>
            /\ log[b].at \in Unmatched =>
                  \E a \in 1..(b - 1) :
                      /\ log[a].op = "set"
                      /\ log[a].kind = "list"
                      /\ log[a].at = log[b].at
                      /\ log[a].val # << >>
                      /\ log[a].val[Len(log[a].val)] = log[b].slot
            /\ log[b].key = "name" =>
                  \A a \in 1..(b - 1) : ~ (IsAttrWrite(log[a]) /\ log[a].at = log[b].at)
            /\ log[b].key = "binding" =>
                  /\ b > 1
                  /\ IsAttrWrite(log[b - 1])
                  /\ log[b - 1].key = "name"
                  /\ log[b - 1].at = log[b].at
                  /\ log[b - 1].slot = log[b].slot
            /\ log[b].key = "command" =>
                  /\ b > 1
                  /\ IsAttrWrite(log[b - 1])
                  /\ log[b - 1].key = "binding"
                  /\ log[b - 1].at = log[b].at
                  /\ log[b - 1].slot = log[b].slot

\* C11's case: a finished run that gave a new slot to a shortcut, after an
\* installed one, and wrote its three attributes.
C11_Witness ==
    /\ Finished
    /\ start.list # << >>
    /\ \E e \in Calls : IsAttrWrite(e) /\ e.key = "command" /\ e.at \in Unmatched

----------------------------------------------------------------------------
\* the writes of the slot list made by the run so far
ListWrites == { e \in Calls : e.op = "set" /\ e.kind = "list" }

\* C12: gap-free lists stay gap-free: from a slot list custom0, ...,
\* custom{M-1}, whatever the runs and their requested sets, the list is always
\* custom0, ..., custom{K-1} with K not below the length the run found, and
\* every identifier allocated is custom{N}, N the length of the list at that
\* moment, and is none of the identifiers the list held.
C12_GapFree ==
    /\ Canon(store.list)
    /\ IsPrefix(start.list, store.list)
    /\ \A e \in ListWrites :
          LET n == Len(e.val) - 1
          IN  /\ n >= Len(start.list)
              /\ Canon(e.val)
              /\ e.val[n + 1] = n
              /\ \A k \in 1..n : e.val[k] # e.val[n + 1]

\* C12's case: a second run allocated a slot on a list that the first run had
\* already made longer than any list of the first store.
C12_Witness ==
    /\ run = 2
    /\ Finished
    /\ ListWrites # {}
    /\ Len(start.list) > MaxLen
    /\ Len(store.list) > Len(start.list)

----------------------------------------------------------------------------
\* C13: reconciliation returns exactly the values of requested, one per
\* requested name and in the insertion order of requested: an entry whose name
\* is in current carries the slot of current[name], an entry whose name is not
\* in current keeps its slot, which is unset, and a name that is only in
\* current gets no entry.
C13_Reconcile ==
    [][pc = "compute" =>
         LET requested == custom_shortcuts
             returned == custom_shortcuts'
         IN  /\ Len(returned) = Len(requested)
             /\ Injective([k \in DOMAIN returned |-> returned[k].name])
             /\ \A k \in DOMAIN requested :
                   /\ returned[k].name = requested[k].name
                   /\ returned[k].binding = requested[k].binding
                   /\ returned[k].command = requested[k].command
                   /\ returned[k].builtin_replaced = requested[k].builtin_replaced
                   /\ IF requested[k].name \in DOMAIN current_shortcuts
                      THEN returned[k].index = current_shortcuts[requested[k].name].index
                      ELSE returned[k].index = requested[k].index /\ IsNone(returned[k].index)
             /\ \A name \in DOMAIN current_shortcuts :
                   (\E k \in DOMAIN returned : returned[k].name = name)
                       => \E k \in DOMAIN requested : requested[k].name = name
      ]_vars

\* C13's case: a run reconciled a requested set with one name that is
\* installed and one that is not, over a store that holds a name the
\* configuration does not request.
C13_Witness ==
    /\ Reconciled
    /\ Matched # {}
    /\ Unmatched # {}
    /\ \E k \in Matched : ~ IsNone(custom_shortcuts[k].index)
    /\ DOMAIN current_shortcuts \ Keys(custom_shortcuts) # {}

----------------------------------------------------------------------------
\* the positions of the configuration's custom_shortcuts that give `name`
Occurrences(name) == { k \in DOMAIN cfg.custom : cfg.custom[k].name = name }

\* the names the configuration gives more than once
Duplicated == { cfg.custom[k].name : k \in { j \in DOMAIN cfg.custom :
                                               Cardinality(Occurrences(cfg.custom[j].name)) > 1 } }

Last(name) == cfg.custom[CHOOSE k \in Occurrences(name) :
                            \A j \in Occurrences(name) : j <= k]

\* the positions in the log of the writes of attribute `attr` for `name`
AttrWritesOf(name, attr) ==
    { a \in DOMAIN log : /\ IsAttrWrite(log[a])
                         /\ log[a].key = attr
                         /\ custom_shortcuts[log[a].at].name = name }

\* the positions in the log of the list writes made for `name`
AllocationsOf(name) ==
    { a \in DOMAIN log : /\ log[a].op = "set"
                         /\ log[a].kind = "list"
                         /\ custom_shortcuts[log[a].at].name = name }

\* C14: duplicate names are last-wins: of a name the configuration lists more
\* than once the run applies one shortcut, with the binding, the command and
\* the builtin_replaced of the last occurrence, and allocates at most one slot.
C14_LastWins ==
    \A name \in Duplicated :
        /\ Reconciled =>
              /\ Cardinality({ k \in DOMAIN custom_shortcuts :
                                 custom_shortcuts[k].name = name }) = 1
              /\ \A k \in DOMAIN custom_shortcuts :
                    custom_shortcuts[k].name = name =>
                       /\ custom_shortcuts[k].binding = Last(name).binding
                       /\ custom_shortcuts[k].command = Last(name).command
                       /\ custom_shortcuts[k].builtin_replaced =
                             IF "builtin_replaced" \in Last(name).fields
                             THEN Last(name).builtin_replaced ELSE NoneStr
              /\ Cardinality(AllocationsOf(name)) <= 1
              /\ \A attr \in Range(Commands) : Cardinality(AttrWritesOf(name, attr)) <= 1
              /\ \A a \in AttrWritesOf(name, "binding") : log[a].val = Last(name).binding
              /\ \A a \in AttrWritesOf(name, "command") : log[a].val = Last(name).command
        /\ Finished =>
              \A attr \in Range(Commands) : Cardinality(AttrWritesOf(name, attr)) = 1

\* C14's case: a finished run whose configuration gave one name twice, with
\* two bindings, and which allocated a slot for it.
C14_Witness ==
    /\ Finished
    /\ \E name \in Duplicated :
          /\ \E j, k \in Occurrences(name) : cfg.custom[j].binding # cfg.custom[k].binding
          /\ AllocationsOf(name) # {}
          /\ AttrWritesOf(name, "command") # {}

----------------------------------------------------------------------------
\* both runs ended with exit status 0
BothDone == pc = "done" /\ exit = 0 /\ other.pc = "done" /\ other.exit = 0

\* the two runs computed their new slot list from the same list: each read
\* the slot list before the other wrote it
SameRead == new_shortcut_list = other.new_shortcut_list

\* C15: two concurrent runs can corrupt the store. Each run requests one
\* shortcut of a name that is not installed and the two names differ; the
\* list has M slots, custom0 to custom{M-1}. When both runs are over, either
\* the list has the two new slots custom{M} and custom{M+1} and one shortcut
\* sits in each, or, the two runs having read the list before either wrote
\* it, the list has the one new slot custom{M} and both shortcuts were
\* written to it.
C15_ConcurrentOutcomes ==
    BothDone =>
        LET M == Len(start.list)
            mine == ShortcutName(custom_shortcuts[1])
            theirs == ShortcutName(other.custom_shortcuts[1])
        IN  IF SameRead
            THEN /\ store.list = start.list \o << M >>
                 /\ mine = M
                 /\ theirs = M
                 /\ store.attrs[M].name \in { custom_shortcuts[1].name,
                                              other.custom_shortcuts[1].name }
                 /\ store.attrs[M + 1] = start.attrs[M + 1]
            ELSE /\ store.list = start.list \o << M, M + 1 >>
                 /\ { mine, theirs } = { M, M + 1 }
                 /\ store.attrs[mine].name = custom_shortcuts[1].name
                 /\ store.attrs[theirs].name = other.custom_shortcuts[1].name

\* C15's case: two runs over a list of M slots are over, the list has M + 1
\* identifiers, the two shortcuts, of different names, went to the same slot,
\* and the slot holds the name of one with the binding of the other.
C15_Witness ==
    /\ BothDone
    /\ custom_shortcuts[1].name # other.custom_shortcuts[1].name
    /\ Len(store.list) = Len(start.list) + 1
    /\ ShortcutName(custom_shortcuts[1]) = ShortcutName(other.custom_shortcuts[1])
    /\ store.attrs[Len(start.list)].name = custom_shortcuts[1].name
    /\ store.attrs[Len(start.list)].binding = other.custom_shortcuts[1].binding

----------------------------------------------------------------------------
\* the run is about to write an attribute of the shortcut it is applying
AtAttrWrite == pc \in Range(StepOf)

\* C16: every write of a name, binding or command attribute targets a slot
\* identifier that is an element of the slot list at the moment of the write,
\* for every initial slot list and every requested set.
C16_WriteTargetsListed ==
    AtAttrWrite => ShortcutName(custom_shortcuts[i]) \in Range(store.list)

\* C17: an update lands where the shortcut was read from: the attribute
\* writes for a name that is both installed and requested go to the slot
\* identifier, element of the slot list, from which the installed shortcut of
\* that name was read, for every initial slot list.
C17_UpdateInPlace ==
    AtAttrWrite /\ i \in Matched =>
        LET read_at == current_shortcuts[custom_shortcuts[i].name].index[1] + 1
        IN  ShortcutName(custom_shortcuts[i]) = custom_shortcut_list[read_at]

\* C18: a replaced built-in stays disabled: at the end of a successful run
\* every built-in key named by the builtin_replaced of an applied custom
\* shortcut holds the empty list of bindings, for every configuration.
C18_ReplacedStaysDisabled ==
    Finished =>
        \A k \in DOMAIN custom_shortcuts :
            Truthy(custom_shortcuts[k].builtin_replaced) =>
                store.builtin[custom_shortcuts[k].builtin_replaced] = << >>

====
